---- MODULE Spec2Model ----
(***************************************************************************)
(* Category workflow of the inventory application: the Category request    *)
(* handlers of the category controller, the Category schema, and the       *)
(* Category / Item collections they read and write.                        *)
(*                                                                         *)
(* Strings are sequences of one-character strings. Documents are records   *)
(* carrying their _id. A collection is a set of documents.                 *)
(***************************************************************************)
EXTENDS Integers, Sequences, FiniteSets, TLC

\* ------------------------------------------------------------------------
\* Bounds
\* ------------------------------------------------------------------------
\* number of Category ids the model hands out and addresses in request paths
MaxIds == 2
\* number of Item ids the model hands out
MaxItems == 2
\* number of Category requests issued in the interleaved specification
MaxReq == 2

\* ------------------------------------------------------------------------
\* Program constants
\* ------------------------------------------------------------------------
\* CategorySchema: maxLength of name and of description
MaxLength == 100
\* isLength({ min: 1 }) of both body validators
MinLength == 1
\* err.status of the 'Category not found' error
NotFoundStatus == 404

VARIABLES
    categories,   \* the Category collection: set of [_id, name, description]
    items,        \* the Item collection: set of [_id, category]
    nextId,       \* next fresh Category _id
    nextItem,     \* next fresh Item _id
    last,         \* the request that completed last, with its outcome
    prevCreated,  \* _id the request before `last` saved through create, else 0
    reqs          \* requests in flight (interleaved specification only)

vars == <<categories, items, nextId, nextItem, last, prevCreated, reqs>>

Ids == 1..MaxIds
Slots == 1..MaxReq

\* ------------------------------------------------------------------------
\* Strings
\* ------------------------------------------------------------------------
RECURSIVE Rep(_, _)
Rep(c, n) == IF n = 0 THEN <<>> ELSE <<c>> \o Rep(c, n - 1)

IsSpace(c) == c = " "

RECURSIVE LTrim(_)
LTrim(s) == IF s # <<>> /\ IsSpace(Head(s)) THEN LTrim(Tail(s)) ELSE s

RECURSIVE RTrim(_)
RTrim(s) ==
    IF s # <<>> /\ IsSpace(s[Len(s)]) THEN RTrim(SubSeq(s, 1, Len(s) - 1)) ELSE s

\* .trim(): strip whitespace on both ends
Trim(s) == RTrim(LTrim(s))

\* .escape(): HTML-unsafe characters become entities
Entity(c) ==
    CASE c = "&" -> <<"&", "a", "m", "p", ";">>
      [] c = "<" -> <<"&", "l", "t", ";">>
      [] c = ">" -> <<"&", "g", "t", ";">>
      [] c = "\"" -> <<"&", "q", "u", "o", "t", ";">>
      [] c = "'" -> <<"&", "#", "x", "2", "7", ";">>
      [] c = "/" -> <<"&", "#", "x", "2", "F", ";">>
      [] OTHER -> <<c>>

Unsafe(c) == Entity(c) # <<c>>

\* replaces the first unsafe character and goes on behind it; a string
\* without one is returned as it is
RECURSIVE Escape(_)
Escape(s) ==
    IF \E k \in 1..Len(s) : Unsafe(s[k])
    THEN LET k == CHOOSE j \in 1..Len(s) :
                      Unsafe(s[j]) /\ \A i \in 1..(j - 1) : ~Unsafe(s[i])
         IN  SubSeq(s, 1, k - 1) \o Entity(s[k]) \o Escape(SubSeq(s, k + 1, Len(s)))
    ELSE s

\* a chain without .escape()
Sanitize_NoEscape(s) == Trim(s)

\* the value a body('field').trim()...escape() chain leaves in req.body
Sanitize(s) == Escape(Trim(s))

UpperLetters == <<"A", "B", "D", "X", "Y">>
LowerLetters == <<"a", "b", "d", "x", "y">>

\* case folding of one character (primary + secondary strength keeps the
\* letter, drops the case)
FoldChar(c) ==
    IF \E k \in 1..Len(UpperLetters) : UpperLetters[k] = c
    THEN LowerLetters[CHOOSE k \in 1..Len(UpperLetters) : UpperLetters[k] = c]
    ELSE c

Fold(s) == [k \in 1..Len(s) |-> FoldChar(s[k])]

\* .collation({ locale: 'en', strength: 2 }): equality ignoring letter case
CollationEqual(s, t) == Fold(s) = Fold(t)

\* ------------------------------------------------------------------------
\* Request inputs
\* ------------------------------------------------------------------------
Body(name, description) == [name |-> name, description |-> description]

\* the request bodies the handlers are driven with: padded, case-variant,
\* HTML-unsafe, blank and over-long fields
Bodies ==
    { Body(<<" ", "a">>, <<" ", "d">>),
      Body(<<"A">>, <<"&">>),
      Body(<<"<">>, <<" ", "d">>),
      Body(<<" ">>, <<" ", "d">>),
      Body(<<" ", "a">>, <<>>),
      Body(<<>>, <<" ">>),
      Body(Rep("x", MaxLength), <<"&">>),
      Body(Rep("x", MaxLength + 1), <<" ", "d">>) }

NoBody == [name |-> <<>>, description |-> <<>>]

\* ------------------------------------------------------------------------
\* Validation (express-validator chains) and the schema
\* ------------------------------------------------------------------------
NameError == [path |-> "name", msg |-> "Category name required"]
DescriptionError == [path |-> "description", msg |-> "Category description required"]

\* a validation that lost the chain for name
ValidationErrors_DescriptionOnly(body) ==
    IF Len(Trim(body.description)) >= MinLength THEN <<>> ELSE <<DescriptionError>>

\* a validation that stops at the first failing field
ValidationErrors_ShortCircuit(body) ==
    IF Len(Trim(body.name)) < MinLength THEN <<NameError>>
    ELSE IF Len(Trim(body.description)) < MinLength THEN <<DescriptionError>>
    ELSE <<>>

\* validationResult(req).array(): every failing chain reports, in chain order
ValidationErrors(body) ==
    (IF Len(Trim(body.name)) >= MinLength THEN <<>> ELSE <<NameError>>)
    \o (IF Len(Trim(body.description)) >= MinLength THEN <<>> ELSE <<DescriptionError>>)

\* new Category({ name: req.body.name, description: req.body.description })
NewCategory(id, body) ==
    [_id |-> id, name |-> Sanitize(body.name), description |-> Sanitize(body.description)]

\* CategorySchema: both paths required and at most maxLength long; checked by
\* document.save(), not by findByIdAndUpdate
SchemaValid(doc) ==
    /\ Len(doc.name) >= 1 /\ Len(doc.name) <= MaxLength
    /\ Len(doc.description) >= 1 /\ Len(doc.description) <= MaxLength

\* CategorySchema.virtual('url')
CategoryUrl(id) == [path |-> "/category/", id |-> id]
ListUrl == [path |-> "/categories", id |-> 0]

\* ------------------------------------------------------------------------
\* Store calls (mongoose queries), as functions of the collection they read
\* ------------------------------------------------------------------------
\* null: the result of a lookup that matches nothing
NullCategory == [_id |-> 0, name |-> <<>>, description |-> <<>>]

\* Category.findById(id)
FindById(coll, id) ==
    IF \E d \in coll : d._id = id
    THEN CHOOSE d \in coll : d._id = id
    ELSE NullCategory

\* Item.find({ category: id })
FindItems(coll, id) == { i \in coll : i.category = id }

\* the documents Category.findOne({ name }).collation(...) may return
FindOneByName(coll, name) == { d \in coll : CollationEqual(d.name, name) }

\* category.save() of a document that passed schema validation
Save(coll, doc) == coll \cup {doc}

\* a delete without its filter
FindByIdAndDelete_All(coll, id) == {}

\* Category.findByIdAndDelete(id)
FindByIdAndDelete(coll, id) == { d \in coll : d._id # id }

\* an update with { upsert: true }
FindByIdAndUpdate_Upsert(coll, id, doc) ==
    { d \in coll : d._id # id }
        \cup {[_id |-> doc._id, name |-> doc.name, description |-> doc.description]}

\* Category.findByIdAndUpdate(id, doc): sets the fields of doc on the stored
\* document with that _id; no upsert, no schema validators
FindByIdAndUpdate(coll, id, doc) ==
    { IF d._id = id
      THEN [_id |-> doc._id, name |-> doc.name, description |-> doc.description]
      ELSE d : d \in coll }

ItemIdsOf(its) == { i._id : i \in its }

\* ------------------------------------------------------------------------
\* Responses and errors
\* ------------------------------------------------------------------------
NoUrl == [path |-> "", id |-> 0]

\* res.render(view, { category, category_items, errors })
Render(view, category, its, errors) ==
    [kind |-> "render", view |-> view, to |-> NoUrl,
     category |-> category, category_items |-> ItemIdsOf(its), errors |-> errors]

\* res.redirect(url)
Redirect(url) ==
    [kind |-> "redirect", view |-> "", to |-> url,
     category |-> NullCategory, category_items |-> {}, errors |-> <<>>]

NoError == [msg |-> "", status |-> 0]
\* new Error('Category not found') with err.status = 404
NotFoundError == [msg |-> "Category not found", status |-> NotFoundStatus]
\* the rejection of save() when the document fails the schema
SchemaValidationError == [msg |-> "ValidationError", status |-> 0]
\* the failure of a res.render issued after the response was already sent
HeadersSentError == [msg |-> "ERR_HTTP_HEADERS_SENT", status |-> 0]

\* a request and its outcome; repeat tells that the request before it was
\* the same one (same handler, same path id, same body)
Request(op, id, body, responses, calls, error) ==
    [op |-> op, id |-> id, body |-> body, responses |-> responses,
     calls |-> calls, error |-> error, repeat |-> FALSE]

NoRequest == Request("none", 0, NoBody, <<>>, <<>>, NoError)

\* the _id a completed request stored through category.save(), else 0
SavedId(r) ==
    IF r.op = "category_create_post" /\ r.calls = <<"findOne", "save">> /\ r.error = NoError
    THEN r.responses[1].to.id
    ELSE 0

\* a request slot nobody uses
IdleSlot ==
    [op |-> "none", pc |-> "idle", id |-> 0, body |-> NoBody,
     category |-> NullCategory, itemsInCategory |-> {}, gotCategory |-> FALSE,
     gotItems |-> FALSE, responses |-> <<>>, error |-> NoError, calls |-> <<>>]

Init ==
    /\ categories = {}
    /\ items = {}
    /\ nextId = 1
    /\ nextItem = 1
    /\ last = NoRequest
    /\ prevCreated = 0
    /\ reqs = [s \in Slots |-> IdleSlot]

\* ------------------------------------------------------------------------
\* Handlers, each run to completion (sequential specification)
\* ------------------------------------------------------------------------
\* what every completed request records
Completed(r) ==
    /\ last' = [r EXCEPT !.repeat = (last.op = r.op /\ last.id = r.id /\ last.body = r.body)]
    /\ prevCreated' = SavedId(last)
    /\ UNCHANGED reqs

\* a detail handler without the check for null
category_detail_NoNullCheck(id) ==
    /\ Completed(Request("category_detail", id, NoBody,
                         <<Render("category_detail", FindById(categories, id),
                                  FindItems(items, id), <<>>)>>,
                         <<"findById", "find">>, NoError))
    /\ UNCHANGED <<categories, items, nextId, nextItem>>

\* exports.category_detail
category_detail(id) ==
    LET category == FindById(categories, id)
        itemsInCategory == FindItems(items, id)
    IN  /\ IF category = NullCategory
           THEN Completed(Request("category_detail", id, NoBody, <<>>,
                                  <<"findById", "find">>, NotFoundError))
           ELSE Completed(Request("category_detail", id, NoBody,
                                  <<Render("category_detail", category, itemsInCategory, <<>>)>>,
                                  <<"findById", "find">>, NoError))
        /\ UNCHANGED <<categories, items, nextId, nextItem>>

\* exports.category_create_post
category_create_post(body) ==
    LET errors == ValidationErrors(body)
        category == NewCategory(nextId, body)
        found == FindOneByName(categories, category.name)
    IN  IF errors # <<>>
        THEN /\ Completed(Request("category_create_post", 0, body,
                                  <<Render("category_form", category, {}, errors)>>,
                                  <<>>, NoError))
             /\ UNCHANGED <<categories, items, nextId, nextItem>>
        ELSE IF found # {}
        THEN /\ \E categoryExists \in found :
                    Completed(Request("category_create_post", 0, body,
                                      <<Redirect(CategoryUrl(categoryExists._id))>>,
                                      <<"findOne">>, NoError))
             /\ UNCHANGED <<categories, items, nextId, nextItem>>
        ELSE IF SchemaValid(category)
        THEN /\ nextId <= MaxIds
             /\ categories' = Save(categories, category)
             /\ nextId' = nextId + 1
             /\ Completed(Request("category_create_post", 0, body,
                                  <<Redirect(CategoryUrl(category._id))>>,
                                  <<"findOne", "save">>, NoError))
             /\ UNCHANGED <<items, nextItem>>
        ELSE /\ Completed(Request("category_create_post", 0, body, <<>>,
                                  <<"findOne", "save">>, SchemaValidationError))
             /\ UNCHANGED <<categories, items, nextId, nextItem>>

\* exports.category_delete_get
category_delete_get(id) ==
    LET category == FindById(categories, id)
        itemsInCategory == FindItems(items, id)
        page == Render("category_delete", category, itemsInCategory, <<>>)
    IN  /\ IF category = NullCategory
           THEN Completed(Request("category_delete_get", id, NoBody,
                                  <<Redirect(ListUrl), page>>,
                                  <<"findById", "find">>, HeadersSentError))
           ELSE Completed(Request("category_delete_get", id, NoBody, <<page>>,
                                  <<"findById", "find">>, NoError))
        /\ UNCHANGED <<categories, items, nextId, nextItem>>

\* a delete handler that does not look at the dependents
category_delete_post_NoGuard(id) ==
    /\ categories' = FindByIdAndDelete(categories, id)
    /\ Completed(Request("category_delete_post", id, NoBody, <<Redirect(ListUrl)>>,
                         <<"findById", "find", "findByIdAndDelete">>, NoError))
    /\ UNCHANGED <<items, nextId, nextItem>>

\* exports.category_delete_post
category_delete_post(id) ==
    LET category == FindById(categories, id)
        itemsInCategory == FindItems(items, id)
    IN  IF Cardinality(itemsInCategory) > 0
        THEN /\ Completed(Request("category_delete_post", id, NoBody,
                                  <<Render("category_delete", category, itemsInCategory, <<>>)>>,
                                  <<"findById", "find">>, NoError))
             /\ UNCHANGED <<categories, items, nextId, nextItem>>
        ELSE /\ categories' = FindByIdAndDelete(categories, id)
             /\ Completed(Request("category_delete_post", id, NoBody,
                                  <<Redirect(ListUrl)>>,
                                  <<"findById", "find", "findByIdAndDelete">>, NoError))
             /\ UNCHANGED <<items, nextId, nextItem>>

\* an update handler that writes before it looks at the validation result
category_update_post_WriteFirst(id, body) ==
    LET errors == ValidationErrors(body)
        category == NewCategory(id, body)
    IN  /\ categories' = FindByIdAndUpdate(categories, id, category)
        /\ IF errors # <<>>
           THEN Completed(Request("category_update_post", id, body,
                                  <<Render("category_form", category, {}, errors)>>,
                                  <<"findByIdAndUpdate">>, NoError))
           ELSE Completed(Request("category_update_post", id, body,
                                  <<Redirect(CategoryUrl(category._id))>>,
                                  <<"findByIdAndUpdate">>, NoError))
        /\ UNCHANGED <<items, nextId, nextItem>>

\* an update handler whose document does not take over req.params.id
category_update_post_NewId(id, body) ==
    LET errors == ValidationErrors(body)
        category == NewCategory(nextId, body)
    IN  IF errors # <<>>
        THEN /\ Completed(Request("category_update_post", id, body,
                                  <<Render("category_form", category, {}, errors)>>,
                                  <<>>, NoError))
             /\ UNCHANGED <<categories, items, nextId, nextItem>>
        ELSE /\ categories' = FindByIdAndUpdate(categories, id, category)
             /\ Completed(Request("category_update_post", id, body,
                                  <<Redirect(CategoryUrl(category._id))>>,
                                  <<"findByIdAndUpdate">>, NoError))
             /\ UNCHANGED <<items, nextId, nextItem>>

\* exports.category_update_post
category_update_post(id, body) ==
    LET errors == ValidationErrors(body)
        category == NewCategory(id, body)
    IN  IF errors # <<>>
        THEN /\ Completed(Request("category_update_post", id, body,
                                  <<Render("category_form", category, {}, errors)>>,
                                  <<>>, NoError))
             /\ UNCHANGED <<categories, items, nextId, nextItem>>
        ELSE /\ categories' = FindByIdAndUpdate(categories, id, category)
             /\ Completed(Request("category_update_post", id, body,
                                  <<Redirect(CategoryUrl(category._id))>>,
                                  <<"findByIdAndUpdate">>, NoError))
             /\ UNCHANGED <<items, nextId, nextItem>>

\* Item create workflow: persist a new Item referencing a Category id; the
\* reference is not checked against the Category collection
item_create(categoryId) ==
    /\ nextItem <= MaxItems
    /\ items' = items \cup {[_id |-> nextItem, category |-> categoryId]}
    /\ nextItem' = nextItem + 1
    /\ Completed(Request("item_create", categoryId, NoBody, <<>>, <<"save">>, NoError))
    /\ UNCHANGED <<categories, nextId>>

Next ==
    \/ \E id \in Ids : category_detail(id)
    \/ \E body \in Bodies : category_create_post(body)
    \/ \E id \in Ids : category_delete_get(id)
    \/ \E id \in Ids : category_delete_post(id)
    \/ \E id \in Ids, body \in Bodies : category_update_post(id, body)

\* Category requests, one after the other
Spec == Init /\ [][Next]_vars

\* the bodies driving the Category handlers next to the Item workflow
ItemBodies ==
    { Body(<<" ", "a">>, <<" ", "d">>),
      Body(<<"<">>, <<"&">>),
      Body(<<" ">>, <<" ", "d">>) }

ItemNext ==
    \/ \E id \in Ids : category_detail(id)
    \/ \E body \in ItemBodies : category_create_post(body)
    \/ \E id \in Ids : category_delete_get(id)
    \/ \E id \in Ids : category_delete_post(id)
    \/ \E id \in Ids, body \in ItemBodies : category_update_post(id, body)
    \/ \E id \in Ids : item_create(id)

\* Category and Item requests, one after the other
ItemSpec == Init /\ [][ItemNext]_vars

\* ------------------------------------------------------------------------
\* Handlers in flight together, one step per store call (interleaved
\* specification). Every slot runs one request; slots are taken in order.
\* ------------------------------------------------------------------------
Free(s) ==
    /\ reqs[s].pc = "idle"
    /\ \A t \in Slots : t < s => reqs[t].pc # "idle"

Done(s, responses, error) ==
    reqs' = [reqs EXCEPT ![s].pc = "done", ![s].responses = responses, ![s].error = error]

\* the bodies of the create requests in flight
ConcBodies ==
    { Body(<<" ", "a">>, <<" ", "d">>),
      Body(<<"A">>, <<"&">>),
      Body(<<" ">>, <<" ", "d">>) }

\* category_create_post up to its first store call: validation, then either
\* the form again or the lookup in flight
create_post_start(s, body) ==
    /\ Free(s)
    /\ IF ValidationErrors(body) # <<>>
       THEN reqs' = [reqs EXCEPT ![s] =
                [IdleSlot EXCEPT !.op = "category_create_post", !.pc = "done",
                    !.body = body,
                    !.responses = <<Render("category_form", NewCategory(nextId, body), {},
                                           ValidationErrors(body))>>]]
       ELSE reqs' = [reqs EXCEPT ![s] =
                [IdleSlot EXCEPT !.op = "category_create_post", !.pc = "findOne",
                    !.body = body, !.calls = <<"findOne">>]]
    /\ UNCHANGED <<categories, items, nextId, nextItem, last, prevCreated>>

\* await Category.findOne(...).collation(...).exec() is served
create_post_findOne(s) ==
    /\ reqs[s].op = "category_create_post"
    /\ reqs[s].pc = "findOne"
    /\ LET found == FindOneByName(categories, Sanitize(reqs[s].body.name))
       IN  IF found # {}
           THEN \E categoryExists \in found :
                    Done(s, <<Redirect(CategoryUrl(categoryExists._id))>>, NoError)
           ELSE reqs' = [reqs EXCEPT ![s].pc = "save",
                                     ![s].calls = Append(reqs[s].calls, "save")]
    /\ UNCHANGED <<categories, items, nextId, nextItem, last, prevCreated>>

\* await category.save() is served
create_post_save(s) ==
    /\ reqs[s].op = "category_create_post"
    /\ reqs[s].pc = "save"
    /\ LET category == NewCategory(nextId, reqs[s].body)
       IN  IF SchemaValid(category)
           THEN /\ nextId <= MaxIds
                /\ categories' = Save(categories, category)
                /\ nextId' = nextId + 1
                /\ Done(s, <<Redirect(CategoryUrl(category._id))>>, NoError)
           ELSE /\ Done(s, <<>>, SchemaValidationError)
                /\ UNCHANGED <<categories, nextId>>
    /\ UNCHANGED <<items, nextItem, last, prevCreated>>

\* category_delete_post issues both queries of its Promise.all
delete_post_start(s, id) ==
    /\ Free(s)
    /\ reqs' = [reqs EXCEPT ![s] =
            [IdleSlot EXCEPT !.op = "category_delete_post", !.pc = "fetch", !.id = id,
                !.calls = <<"findById", "find">>]]
    /\ UNCHANGED <<categories, items, nextId, nextItem, last, prevCreated>>

\* Category.findById(req.params.id).exec() is served
delete_post_findById(s) ==
    /\ reqs[s].op = "category_delete_post"
    /\ reqs[s].pc = "fetch"
    /\ ~reqs[s].gotCategory
    /\ reqs' = [reqs EXCEPT ![s].category = FindById(categories, reqs[s].id),
                            ![s].gotCategory = TRUE]
    /\ UNCHANGED <<categories, items, nextId, nextItem, last, prevCreated>>

\* Item.find({ category: req.params.id }).exec() is served
delete_post_find(s) ==
    /\ reqs[s].op = "category_delete_post"
    /\ reqs[s].pc = "fetch"
    /\ ~reqs[s].gotItems
    /\ reqs' = [reqs EXCEPT ![s].itemsInCategory = FindItems(items, reqs[s].id),
                            ![s].gotItems = TRUE]
    /\ UNCHANGED <<categories, items, nextId, nextItem, last, prevCreated>>

\* a delete handler that does not look at the dependents it fetched
delete_post_finish_NoGuard(s) ==
    /\ reqs[s].op = "category_delete_post"
    /\ reqs[s].pc = "fetch"
    /\ reqs[s].gotCategory /\ reqs[s].gotItems
    /\ categories' = FindByIdAndDelete(categories, reqs[s].id)
    /\ reqs' = [reqs EXCEPT ![s].pc = "done", ![s].responses = <<Redirect(ListUrl)>>,
                            ![s].calls = Append(reqs[s].calls, "findByIdAndDelete")]
    /\ UNCHANGED <<items, nextId, nextItem, last, prevCreated>>

\* both queries resolved: the confirmation view again, or
\* await Category.findByIdAndDelete(req.params.id) is served
delete_post_finish(s) ==
    /\ reqs[s].op = "category_delete_post"
    /\ reqs[s].pc = "fetch"
    /\ reqs[s].gotCategory /\ reqs[s].gotItems
    /\ IF Cardinality(reqs[s].itemsInCategory) > 0
       THEN /\ Done(s, <<Render("category_delete", reqs[s].category,
                                reqs[s].itemsInCategory, <<>>)>>, NoError)
            /\ UNCHANGED categories
       ELSE /\ categories' = FindByIdAndDelete(categories, reqs[s].id)
            /\ reqs' = [reqs EXCEPT ![s].pc = "done", ![s].responses = <<Redirect(ListUrl)>>,
                    ![s].calls = Append(reqs[s].calls, "findByIdAndDelete")]
    /\ UNCHANGED <<items, nextId, nextItem, last, prevCreated>>

\* the store serves the write of an Item create request
item_create_save(categoryId) ==
    /\ nextItem <= MaxItems
    /\ items' = items \cup {[_id |-> nextItem, category |-> categoryId]}
    /\ nextItem' = nextItem + 1
    /\ UNCHANGED <<categories, nextId, last, prevCreated, reqs>>

ConcNext ==
    \/ \E s \in Slots, body \in ConcBodies : create_post_start(s, body)
    \/ \E s \in Slots : create_post_findOne(s)
    \/ \E s \in Slots : create_post_save(s)
    \/ \E s \in Slots, id \in Ids : delete_post_start(s, id)
    \/ \E s \in Slots : delete_post_findById(s)
    \/ \E s \in Slots : delete_post_find(s)
    \/ \E s \in Slots : delete_post_finish(s)
    \/ \E id \in Ids : item_create_save(id)

\* Category create, Category delete-execute and Item create requests in
\* flight together, interleaved at their store calls
ConcSpec == Init /\ [][ConcNext]_vars

\* ------------------------------------------------------------------------
\* Store calls that fail: the awaited promise rejects, asyncHandler hands the
\* error to next(err) and the handler does not go on
\* ------------------------------------------------------------------------
\* the rejection of a store call
StoreError == [msg |-> "store call failed", status |-> 0]

\* a create handler that catches the rejected lookup and goes on to save
create_post_rejects_GoesOn(s) ==
    /\ reqs[s].op = "category_create_post"
    /\ reqs[s].pc \in {"findOne", "save"}
    /\ IF reqs[s].pc = "findOne"
       THEN reqs' = [reqs EXCEPT ![s].pc = "save", ![s].error = StoreError,
                                 ![s].calls = Append(reqs[s].calls, "save")]
       ELSE Done(s, <<>>, StoreError)
    /\ UNCHANGED <<categories, items, nextId, nextItem, last, prevCreated>>

\* the store call category_create_post is waiting for rejects: the lookup
\* or the save
create_post_rejects(s) ==
    /\ reqs[s].op = "category_create_post"
    /\ reqs[s].pc \in {"findOne", "save"}
    /\ Done(s, <<>>, StoreError)
    /\ UNCHANGED <<categories, items, nextId, nextItem, last, prevCreated>>

\* a query of the Promise.all of category_delete_post rejects while it is
\* still pending
delete_post_fetch_rejects(s) ==
    /\ reqs[s].op = "category_delete_post"
    /\ reqs[s].pc = "fetch"
    /\ ~(reqs[s].gotCategory /\ reqs[s].gotItems)
    /\ Done(s, <<>>, StoreError)
    /\ UNCHANGED <<categories, items, nextId, nextItem, last, prevCreated>>

\* await Category.findByIdAndDelete(req.params.id) rejects
delete_post_delete_rejects(s) ==
    /\ reqs[s].op = "category_delete_post"
    /\ reqs[s].pc = "fetch"
    /\ reqs[s].gotCategory /\ reqs[s].gotItems
    /\ Cardinality(reqs[s].itemsInCategory) = 0
    /\ reqs' = [reqs EXCEPT ![s].pc = "done", ![s].error = StoreError,
                            ![s].calls = Append(reqs[s].calls, "findByIdAndDelete")]
    /\ UNCHANGED <<categories, items, nextId, nextItem, last, prevCreated>>

FailNext ==
    \/ \E s \in Slots, body \in ConcBodies : create_post_start(s, body)
    \/ \E s \in Slots : create_post_findOne(s)
    \/ \E s \in Slots : create_post_save(s)
    \/ \E s \in Slots, id \in Ids : delete_post_start(s, id)
    \/ \E s \in Slots : delete_post_findById(s)
    \/ \E s \in Slots : delete_post_find(s)
    \/ \E s \in Slots : delete_post_finish(s)
    \/ \E s \in Slots : create_post_rejects(s)
    \/ \E s \in Slots : delete_post_fetch_rejects(s)
    \/ \E s \in Slots : delete_post_delete_rejects(s)

\* the Category requests in flight together, with store calls that may fail
FailSpec == Init /\ [][FailNext]_vars

\* ------------------------------------------------------------------------
\* Properties
\* ------------------------------------------------------------------------
IdsOf(coll) == { d._id : d \in coll }

\* input the validation layer accepts: every field non-empty after trimming
\* and, sanitized, within the declared maximum
ValidInput(body) ==
    /\ Len(Trim(body.name)) >= 1 /\ Len(Escape(Trim(body.name))) <= MaxLength
    /\ Len(Trim(body.description)) >= 1
    /\ Len(Escape(Trim(body.description))) <= MaxLength

\* C1: two create requests in a row with valid input and names that differ
\* only in letter case leave exactly one Category of that name in the store,
\* the second redirects where the first did, and the record is not overwritten.
C1_CreateTwiceOneRecord ==
    [][ ( /\ last.op = "category_create_post"
          /\ last'.op = "category_create_post"
          /\ ValidInput(last.body) /\ ValidInput(last'.body)
          /\ Escape(Trim(last.body.name)) # Escape(Trim(last'.body.name))
          /\ Fold(Escape(Trim(last.body.name))) = Fold(Escape(Trim(last'.body.name))) )
        => ( /\ Cardinality({ d \in categories' :
                    Fold(d.name) = Fold(Escape(Trim(last'.body.name))) }) = 1
             /\ Len(last.responses) = 1
             /\ last.responses[1].kind = "redirect"
             /\ last'.responses = last.responses
             /\ \A d \in categories :
                    d._id = last.responses[1].to.id => d \in categories' ) ]_vars

\* C2: no two stored Category records share a name under case-insensitive
\* comparison.
C2_NoDuplicateNames ==
    \A c \in categories : \A d \in categories :
        c._id # d._id => Fold(c.name) # Fold(d.name)

\* C6: every stored Category has a name and a description of 1 to 100
\* characters.
C6_LengthsWithinSchema ==
    \A d \in categories :
        /\ Len(d.name) >= 1 /\ Len(d.name) <= MaxLength
        /\ Len(d.description) >= 1 /\ Len(d.description) <= MaxLength

\* C3: a delete-execute request for a Category that Items reference is
\* refused: both stores stay as they are, the outcome is the confirmation view,
\* and the view reports exactly the Items whose category is that id.
C3_DeleteBlockedByDependents ==
    [][ ( /\ last'.op = "category_delete_post"
          /\ \E i \in items : i.category = last'.id )
        => ( /\ categories' = categories
             /\ items' = items
             /\ Len(last'.responses) = 1
             /\ last'.responses[1].kind = "render"
             /\ last'.responses[1].view = "category_delete"
             /\ last'.responses[1].category_items
                    = { i._id : i \in { j \in items' : j.category = last'.id } }
             /\ \A d \in categories :
                    d._id = last'.id => last'.responses[1].category = d ) ]_vars

C3_Witness ==
    /\ last.op = "category_delete_post"
    /\ last.id \in IdsOf(categories)
    /\ \E i \in items : i.category = last.id
    /\ Len(last.responses) = 1
    /\ last.responses[1].kind = "render"

\* C5: an update request with valid input on an existing id keeps the id,
\* stores the trimmed, escaped name and description, keeps the number of
\* records and every other record, and redirects to that id.
C5_UpdateInPlace ==
    [][ ( /\ last'.op = "category_update_post"
          /\ Len(Trim(last'.body.name)) >= 1
          /\ Len(Trim(last'.body.description)) >= 1
          /\ last'.id \in IdsOf(categories) )
        => ( /\ IdsOf(categories') = IdsOf(categories)
             /\ Cardinality(categories') = Cardinality(categories)
             /\ [_id |-> last'.id,
                 name |-> Escape(Trim(last'.body.name)),
                 description |-> Escape(Trim(last'.body.description))] \in categories'
             /\ \A d \in categories : d._id # last'.id => d \in categories'
             /\ last'.responses = <<Redirect([path |-> "/category/", id |-> last'.id])>> ) ]_vars

C5_Witness ==
    /\ last.op = "category_update_post"
    /\ last.error = NoError
    /\ Len(last.responses) = 1
    /\ last.responses[1].kind = "redirect"
    /\ last.id \in IdsOf(categories)
    /\ Cardinality(categories) >= 2

\* C7: a create request whose name is empty or only whitespace ends in the
\* form view with an error for the name field, changes neither store and
\* issues no store call.
C7_BlankNameNotPersisted ==
    [][ ( /\ last'.op = "category_create_post"
          /\ \A k \in 1..Len(last'.body.name) : last'.body.name[k] = " " )
        => ( /\ categories' = categories
             /\ items' = items
             /\ last'.calls = <<>>
             /\ Len(last'.responses) = 1
             /\ last'.responses[1].kind = "render"
             /\ last'.responses[1].view = "category_form"
             /\ \E k \in 1..Len(last'.responses[1].errors) :
                    last'.responses[1].errors[k].path = "name" ) ]_vars

C7_Witness ==
    /\ last.op = "category_create_post"
    /\ last.body.name = <<" ">>
    /\ Len(last.responses) = 1
    /\ last.responses[1].errors # <<>>

\* C8: a delete-confirm request for an id that is not in the store answers
\* with the redirect to the listing and nothing else, raises no error and
\* changes neither store.
C8_DeleteConfirmAbsentRedirectsOnce ==
    [][ ( /\ last'.op = "category_delete_get"
          /\ last'.id \notin IdsOf(categories) )
        => ( /\ last'.responses = <<Redirect(ListUrl)>>
             /\ last'.error = NoError
             /\ categories' = categories
             /\ items' = items ) ]_vars

\* C9: a detail request for an absent id ends in the 404 error and renders
\* nothing; for a stored id it renders that Category with exactly the Items
\* whose category is that id.
C9_DetailNotFoundOrExact ==
    [][ last'.op = "category_detail"
        => IF last'.id \notin IdsOf(categories)
           THEN /\ last'.error.status = 404
                /\ last'.error.msg = "Category not found"
                /\ last'.responses = <<>>
           ELSE /\ last'.error = NoError
                /\ Len(last'.responses) = 1
                /\ last'.responses[1].kind = "render"
                /\ last'.responses[1].view = "category_detail"
                /\ last'.responses[1].category \in categories
                /\ last'.responses[1].category._id = last'.id
                /\ last'.responses[1].category_items
                       = { i._id : i \in { j \in items : j.category = last'.id } } ]_vars

C9_Witness ==
    /\ last.op = "category_detail"
    /\ last.id \in IdsOf(categories)
    /\ Len(last.responses) = 1
    /\ last.responses[1].category_items # {}
    /\ \E i \in items : i.category # last.id

\* C10 as stated: the detail fetch that follows a create which saved a new
\* record shows the name and description exactly as they were submitted.
C10_RoundTripAsSubmitted ==
    [][ ( /\ SavedId(last) # 0
          /\ last'.op = "category_detail"
          /\ last'.id = SavedId(last) )
        => ( /\ Len(last'.responses) = 1
             /\ last'.responses[1].kind = "render"
             /\ last'.responses[1].category.name = last.body.name
             /\ last'.responses[1].category.description = last.body.description ) ]_vars

\* C10 amended: the detail fetch that follows a create which saved a new
\* record shows the submitted name and description trimmed and escaped.
C10_RoundTripSanitized ==
    [][ ( /\ SavedId(last) # 0
          /\ last'.op = "category_detail"
          /\ last'.id = SavedId(last) )
        => ( /\ Len(last'.responses) = 1
             /\ last'.responses[1].kind = "render"
             /\ last'.responses[1].category.name = Escape(Trim(last.body.name))
             /\ last'.responses[1].category.description
                    = Escape(Trim(last.body.description)) ) ]_vars

C10_Witness ==
    /\ last.op = "category_detail"
    /\ prevCreated # 0
    /\ prevCreated = last.id
    /\ Len(last.responses) = 1
    /\ last.responses[1].category.name = <<"&", "l", "t", ";">>

\* C4 as stated: under every interleaving, delete-execute removes a Category
\* only when no Item references it at the moment of removal.
C4_RemovedOnlyWithoutDependents ==
    [][ \A d \in categories :
            d._id \notin IdsOf(categories')
            => ~ \E i \in items : i.category = d._id ]_vars

\* C4 amended: delete-execute removes a Category only when no Item referenced
\* it at the moment the request's own dependents query was served.
C4_RemovedOnlyIfQueryFoundNone ==
    [][ \A d \in categories :
            d._id \notin IdsOf(categories')
            => \E s \in Slots :
                   /\ reqs[s].op = "category_delete_post"
                   /\ reqs[s].id = d._id
                   /\ reqs[s].gotItems
                   /\ reqs[s].itemsInCategory = {}
                   /\ reqs'[s].responses = <<Redirect(ListUrl)>> ]_vars

\* a delete-execute request removed a Category that an Item created in the
\* meantime references
C4_Witness ==
    \E s \in Slots :
        /\ reqs[s].op = "category_delete_post"
        /\ reqs[s].pc = "done"
        /\ reqs[s].category # NullCategory
        /\ reqs[s].itemsInCategory = {}
        /\ reqs[s].id \notin IdsOf(categories)
        /\ \E i \in items : i.category = reqs[s].id

\* C11: a delete-execute request for a Category without dependent Items
\* removes that record and no other, leaves the Items alone and redirects to
\* the listing; the same request once more changes nothing and redirects to
\* the listing again.
C11_DeleteRemovesExactlyOne ==
    [][ /\ ( /\ last'.op = "category_delete_post"
             /\ ~ \E i \in items : i.category = last'.id )
           => ( /\ categories' = { d \in categories : d._id # last'.id }
                /\ items' = items
                /\ last'.responses = <<Redirect(ListUrl)>>
                /\ last'.error = NoError )
        /\ ( /\ last.op = "category_delete_post"
             /\ last.responses = <<Redirect(ListUrl)>>
             /\ last'.op = "category_delete_post"
             /\ last'.id = last.id )
           => ( /\ categories' = categories
                /\ items' = items
                /\ last'.responses = <<Redirect(ListUrl)>> ) ]_vars

\* the same delete-execute request ran twice in a row on a Category that had
\* existed, next to another Category and an Item
C11_Witness ==
    /\ last.op = "category_delete_post"
    /\ last.repeat
    /\ last.responses = <<Redirect(ListUrl)>>
    /\ last.id < nextId
    /\ last.id \notin IdsOf(categories)
    /\ categories # {}
    /\ items # {}

\* C12: when create requests with names that differ only in letter case are
\* in flight together, the store ends with at most one Category of that name.
C12_ConcurrentCreateOneRecord ==
    \A s \in Slots : \A t \in Slots :
        ( /\ reqs[s].op = "category_create_post" /\ reqs[s].pc = "done"
          /\ reqs[t].op = "category_create_post" /\ reqs[t].pc = "done"
          /\ Escape(Trim(reqs[s].body.name)) # Escape(Trim(reqs[t].body.name))
          /\ Fold(Escape(Trim(reqs[s].body.name))) = Fold(Escape(Trim(reqs[t].body.name))) )
        => Cardinality({ d \in categories :
               Fold(d.name) = Fold(Escape(Trim(reqs[s].body.name))) }) <= 1

\* C13: validation of a create or update request does not stop at the first
\* failing field: with name and description both blank the form comes back
\* with one error for name and one for description, and with the attempted
\* values trimmed and escaped.
C13_AllFieldErrorsReported ==
    [][ ( /\ last'.op \in {"category_create_post", "category_update_post"}
          /\ \A k \in 1..Len(last'.body.name) : last'.body.name[k] = " "
          /\ \A k \in 1..Len(last'.body.description) : last'.body.description[k] = " " )
        => ( /\ Len(last'.responses) = 1
             /\ last'.responses[1].kind = "render"
             /\ last'.responses[1].view = "category_form"
             /\ Cardinality({ k \in 1..Len(last'.responses[1].errors) :
                    last'.responses[1].errors[k].path = "name" }) = 1
             /\ Cardinality({ k \in 1..Len(last'.responses[1].errors) :
                    last'.responses[1].errors[k].path = "description" }) = 1
             /\ Len(last'.responses[1].errors) = 2
             /\ last'.responses[1].category.name = Escape(Trim(last'.body.name))
             /\ last'.responses[1].category.description
                    = Escape(Trim(last'.body.description)) ) ]_vars

C13_Witness ==
    /\ last.op = "category_update_post"
    /\ last.body = Body(<<>>, <<" ">>)
    /\ Len(last.responses) = 1
    /\ Len(last.responses[1].errors) = 2

\* C14: an update request that fails validation leaves the Category store as
\* it is, issues no store call, and returns the errors with a form record
\* whose id is the id of the request path.
C14_InvalidUpdateChangesNothing ==
    [][ ( /\ last'.op = "category_update_post"
          /\ \/ \A k \in 1..Len(last'.body.name) : last'.body.name[k] = " "
             \/ \A k \in 1..Len(last'.body.description) : last'.body.description[k] = " " )
        => ( /\ categories' = categories
             /\ items' = items
             /\ last'.calls = <<>>
             /\ Len(last'.responses) = 1
             /\ last'.responses[1].kind = "render"
             /\ last'.responses[1].view = "category_form"
             /\ last'.responses[1].errors # <<>>
             /\ last'.responses[1].category._id = last'.id ) ]_vars

\* an update with a blank description was refused for a stored record, which
\* keeps a description
C14_Witness ==
    /\ last.op = "category_update_post"
    /\ last.body = Body(<<" ", "a">>, <<>>)
    /\ Len(last.responses) = 1
    /\ last.responses[1].errors = <<DescriptionError>>
    /\ \E d \in categories : d._id = last.id /\ d.description # <<>>

\* C16: an update request with valid input for an id that is not in the store
\* creates no record: the Category store is the same before and after, and
\* the request still redirects to the detail URL of that id.
C16_UpdateNeverInserts ==
    [][ ( /\ last'.op = "category_update_post"
          /\ Len(Trim(last'.body.name)) >= 1
          /\ Len(Trim(last'.body.description)) >= 1
          /\ last'.id \notin IdsOf(categories) )
        => ( /\ categories' = categories
             /\ last'.error = NoError
             /\ last'.responses = <<Redirect([path |-> "/category/", id |-> last'.id])>> ) ]_vars

C16_Witness ==
    /\ last.op = "category_update_post"
    /\ last.calls = <<"findByIdAndUpdate">>
    /\ last.id \notin IdsOf(categories)
    /\ last.responses = <<Redirect(CategoryUrl(last.id))>>
    /\ categories # {}

\* C15: when a store call of a Category handler fails, the request ends in
\* the propagated error without a render or redirect, the failed call is not
\* issued again and the request issues no later store call or write: a failed
\* lookup in create is never followed by a save, a failed fetch in
\* delete-execute never by a delete.
C15_StoreFailurePropagates ==
    [][ /\ \A s \in Slots :
            /\ (reqs[s].error.msg # "store call failed"
                    /\ reqs'[s].error.msg = "store call failed")
               => ( /\ reqs'[s].pc = "done"
                    /\ reqs'[s].responses = <<>>
                    /\ categories' = categories
                    /\ items' = items )
            /\ reqs[s].error.msg = "store call failed" => reqs'[s] = reqs[s]
            /\ \A j \in 1..Len(reqs'[s].calls) : \A k \in 1..Len(reqs'[s].calls) :
                   j # k => reqs'[s].calls[j] # reqs'[s].calls[k]
        /\ categories' # categories
           => \E s \in Slots :
                  /\ reqs[s].error = NoError /\ reqs'[s].error = NoError
                  /\ reqs'[s].calls # <<>>
                  /\ reqs'[s].calls[Len(reqs'[s].calls)] \in {"save", "findByIdAndDelete"}
                  /\ reqs[s].pc # "done" /\ reqs'[s].pc = "done" ]_vars

\* a create whose lookup failed and a delete-execute whose fetch failed have
\* both ended, with the lookup and the fetch as their only store calls
C15_Witness ==
    \E s \in Slots : \E t \in Slots :
        /\ reqs[s].op = "category_create_post"
        /\ reqs[s].pc = "done"
        /\ reqs[s].error = StoreError
        /\ reqs[s].calls = <<"findOne">>
        /\ reqs[s].responses = <<>>
        /\ reqs[t].op = "category_delete_post"
        /\ reqs[t].pc = "done"
        /\ reqs[t].error = StoreError
        /\ reqs[t].calls = <<"findById", "find">>
        /\ reqs[t].responses = <<>>

====
